---- MODULE Spec2Model ----
(***************************************************************************)
(* Compass (src/app.py): the output-validation and fallback gate            *)
(* (safe_extract_json, validate_deliverables, create_fallback), the model   *)
(* gateway (call_gemini) and the Generate handler with its usage counter.   *)
(*                                                                          *)
(* Strings are sequences of atoms.  An atom is one character (every         *)
(* character the regular expressions, str.strip, str.find or the JSON       *)
(* grammar look at is an atom of its own: backtick, brace, bracket, quote,  *)
(* colon, comma, digit, whitespace, the letters of "json" and "null"), one  *)
(* JSON escape sequence inside a JSON text (backslash-u007b is the atom     *)
(* "\\u007b"), or an opaque word: a run of characters, such as a key name   *)
(* or a fixed message, that begins and ends with a non-whitespace character *)
(* and holds none of the characters above at a place where they matter.     *)
(*                                                                          *)
(* A Python value is a record with one field, named after its type:         *)
(*   none (None / JSON null), num (int), str, arr (list), obj (dict, a      *)
(*   sequence of <<key, value>> pairs in insertion order, keys unique).     *)
(***************************************************************************)
EXTENDS Integers, Sequences, FiniteSets

VARIABLES
    phase,           \* which operation of the run under study has acted
    text,            \* safe_extract_json: its argument
    parsed,          \* safe_extract_json(text)
    reparsed,        \* safe_extract_json(json.dumps(parsed))
    cand,            \* validate_deliverables: the candidate value
    raw_text,        \* validate_deliverables: the raw text
    validated,       \* validate_deliverables(cand, raw_text)
    GEMINI_API_KEY,  \* app.py:20, TRUE iff the stripped credential is non-empty
    transport,       \* what requests.post did on the last call
    request,         \* the prompt text of the last payload posted
    ai,              \* the last call_gemini result
    net_calls,       \* number of requests.post calls issued
    gw_calls,        \* number of call_gemini invocations by the Generate handler
    uses_left,       \* st.session_state.uses_left
    prompt,          \* the prompt text area at the last click
    screen           \* what the last Generate click rendered

extractorVars == <<text, parsed, reparsed>>
validatorVars == <<cand, raw_text, validated>>
gatewayVars == <<transport, request, ai, net_calls>>
sessionVars == <<gw_calls, uses_left, prompt, screen>>

vars == <<phase, GEMINI_API_KEY, extractorVars, validatorVars, gatewayVars,
          sessionVars>>

----------------------------------------------------------------------------
(* Python values *)

None == [none |-> 0]
\* no value: an absent key, a result not computed yet
Unset == [unset |-> 0]
Num(n) == [num |-> n]
Str(s) == [str |-> s]
Arr(a) == [arr |-> a]
Obj(m) == [obj |-> m]

\* type(x)
Tag(x) == CHOOSE t \in DOMAIN x : TRUE
IsUnset(x) == Tag(x) = "unset"
IsNone(x) == Tag(x) = "none"
IsNum(x) == Tag(x) = "num"
IsStr(x) == Tag(x) = "str"
IsList(x) == Tag(x) = "arr"
IsDict(x) == Tag(x) = "obj"

Min(S) == CHOOSE m \in S : \A k \in S : m <= k
Max(S) == CHOOSE m \in S : \A k \in S : m >= k

\* k in d
HasKey(d, k) == \E i \in 1..Len(d.obj) : d.obj[i][1] = k
\* d[k], for k in d
Get(d, k) == d.obj[CHOOSE i \in 1..Len(d.obj) : d.obj[i][1] = k][2]
\* d.get(k): None when k is absent
DictGet(d, k) == IF HasKey(d, k) THEN Get(d, k) ELSE None
\* d[k] = x on the pair sequence: an existing key keeps its place
DictPut(m, k, x) ==
    IF \E i \in 1..Len(m) : m[i][1] = k
    THEN [i \in 1..Len(m) |-> IF m[i][1] = k THEN <<k, x>> ELSE m[i]]
    ELSE Append(m, <<k, x>>)

----------------------------------------------------------------------------
(* str methods *)

\* the whitespace str.strip() and the regex class \s remove, and that the
\* JSON grammar skips between tokens
WS == {" ", "\n", "\t"}

Word(w) == <<w>>

\* str.strip()
Strip(s) ==
    LET keep == {i \in 1..Len(s) : s[i] \notin WS}
    IN  IF keep = {} THEN <<>> ELSE SubSeq(s, Min(keep), Max(keep))

\* s[i:] starts with p
MatchAt(s, p, i) ==
    /\ i >= 1
    /\ i + Len(p) - 1 <= Len(s)
    /\ \A k \in 1..Len(p) : s[i + k - 1] = p[k]

\* the first index >= i that holds no whitespace (Len(s) + 1 when none):
\* where a greedy \s* started at i ends
SkipWS(s, i) ==
    LET stop == {j \in i..Len(s) : s[j] \notin WS}
    IN  IF stop = {} THEN Len(s) + 1 ELSE Min(stop)

\* the start of the whitespace run that ends just before index j, not below lo
WSRunStart(s, j, lo) ==
    Min({q \in lo..j : \A k \in q..(j - 1) : s[k] \in WS})

Lower(c) ==
    CASE c = "J" -> "j" [] c = "S" -> "s" [] c = "O" -> "o" [] c = "N" -> "n"
      [] OTHER -> c

\* "json" at index i, re.IGNORECASE
JsonWordAt(s, i) ==
    /\ i + 3 <= Len(s)
    /\ <<Lower(s[i]), Lower(s[i + 1]), Lower(s[i + 2]), Lower(s[i + 3])>>
         = <<"j", "s", "o", "n">>

\* The backtick character (the lexer takes no backtick in a string literal)
Tick == "BACKTICK"

Fence == <<Tick, Tick, Tick>>

\* s[i:]
From(s, i) == SubSeq(s, i, Len(s))

----------------------------------------------------------------------------
(* json.loads and json.dumps, on the JSON grammar the atoms can spell:      *)
(* objects, arrays, strings with escapes, non-negative integers and null.   *)
(* (No atom spells "-", ".", "e", "true", "false" or "NaN".)                *)

Quote == "\""
Digits == {"0", "1", "2", "3", "4", "5", "6", "7", "8", "9"}
DigitVal(c) ==
    CASE c = "0" -> 0 [] c = "1" -> 1 [] c = "2" -> 2 [] c = "3" -> 3
      [] c = "4" -> 4 [] c = "5" -> 5 [] c = "6" -> 6 [] c = "7" -> 7
      [] c = "8" -> 8 [] c = "9" -> 9
DigitChar(d) ==
    CASE d = 0 -> "0" [] d = 1 -> "1" [] d = 2 -> "2" [] d = 3 -> "3"
      [] d = 4 -> "4" [] d = 5 -> "5" [] d = 6 -> "6" [] d = 7 -> "7"
      [] d = 8 -> "8" [] d = 9 -> "9"

\* the escape sequences of a JSON string (json.decoder: BACKSLASH and \uXXXX)
Escapes == {"\\u007b", "\\u007d", "\\u0060", "\\\"", "\\\\", "\\n", "\\t"}
Unescape(c) ==
    CASE c = "\\u007b" -> "{"
      [] c = "\\u007d" -> "}"
      [] c = "\\u0060" -> Tick
      [] c = "\\\"" -> Quote
      [] c = "\\\\" -> "\\"
      [] c = "\\n" -> "\n"
      [] c = "\\t" -> "\t"
      [] OTHER -> c
\* json.encoder ESCAPE_DCT: what json.dumps writes for a character of a string
EscapeChar(c) ==
    CASE c = Quote -> "\\\""
      [] c = "\\" -> "\\\\"
      [] c = "\n" -> "\\n"
      [] c = "\t" -> "\\t"
      [] OTHER -> c

Fail == [ok |-> FALSE, val |-> None, pos |-> 0]
Ok(x, p) == [ok |-> TRUE, val |-> x, pos |-> p]

\* py_scanstring from the atom after the opening quote: a control character
\* inside the string is an error (strict), an unterminated string too
ParseString(s, i) ==
    LET close == {j \in i..Len(s) : s[j] = Quote}
    IN  IF close = {} THEN Fail
        ELSE LET j == Min(close)
                 body == SubSeq(s, i, j - 1)
             IN  IF \E k \in 1..Len(body) : body[k] \in {"\n", "\t", "\\"}
                 THEN Fail
                 ELSE Ok(Str([k \in 1..Len(body) |-> Unescape(body[k])]), j + 1)

RECURSIVE DecimalValue(_)
DecimalValue(ds) ==
    IF ds = <<>> THEN 0
    ELSE 10 * DecimalValue(SubSeq(ds, 1, Len(ds) - 1)) + DigitVal(ds[Len(ds)])

\* NUMBER_RE (0|[1-9]\d*) at a digit
ParseNumber(s, i) ==
    IF s[i] = "0" THEN Ok(Num(0), i + 1)
    ELSE LET stop == {j \in i..Len(s) : s[j] \notin Digits}
             e == IF stop = {} THEN Len(s) + 1 ELSE Min(stop)
         IN  Ok(Num(DecimalValue(SubSeq(s, i, e - 1))), e)

RECURSIVE ParseValue(_, _), ParseElements(_, _, _), ParseMembers(_, _, _)

\* scanner.py _scan_once at index i
ParseValue(s, i) ==
    IF i > Len(s) THEN Fail
    ELSE IF s[i] = Quote THEN ParseString(s, i + 1)
    ELSE IF s[i] = "{" THEN
        LET j == SkipWS(s, i + 1)
        IN  IF j <= Len(s) /\ s[j] = "}" THEN Ok(Obj(<<>>), j + 1)
            ELSE ParseMembers(s, j, <<>>)
    ELSE IF s[i] = "[" THEN
        LET j == SkipWS(s, i + 1)
        IN  IF j <= Len(s) /\ s[j] = "]" THEN Ok(Arr(<<>>), j + 1)
            ELSE ParseElements(s, j, <<>>)
    ELSE IF MatchAt(s, <<"n", "u", "l", "l">>, i) THEN Ok(None, i + 4)
    ELSE IF s[i] \in Digits THEN ParseNumber(s, i)
    ELSE Fail

\* JSONArray: the elements from index i, acc the ones read so far
ParseElements(s, i, acc) ==
    LET r == ParseValue(s, i)
    IN  IF ~r.ok THEN Fail
        ELSE LET j == SkipWS(s, r.pos)
                 acc2 == Append(acc, r.val)
             IN  IF j > Len(s) THEN Fail
                 ELSE IF s[j] = "]" THEN Ok(Arr(acc2), j + 1)
                 ELSE IF s[j] = "," THEN ParseElements(s, SkipWS(s, j + 1), acc2)
                 ELSE Fail

\* JSONObject: the members from index i (a key's opening quote is expected)
ParseMembers(s, i, acc) ==
    IF i > Len(s) \/ s[i] # Quote THEN Fail
    ELSE LET k == ParseString(s, i + 1)
         IN  IF ~k.ok THEN Fail
             ELSE LET c == SkipWS(s, k.pos)
                  IN  IF c > Len(s) \/ s[c] # ":" THEN Fail
                      ELSE LET r == ParseValue(s, SkipWS(s, c + 1))
                           IN  IF ~r.ok THEN Fail
                               ELSE LET j == SkipWS(s, r.pos)
                                        acc2 == DictPut(acc, k.val.str, r.val)
                                    IN  IF j > Len(s) THEN Fail
                                        ELSE IF s[j] = "}" THEN Ok(Obj(acc2), j + 1)
                                        ELSE IF s[j] = ","
                                             THEN ParseMembers(s, SkipWS(s, j + 1), acc2)
                                        ELSE Fail

\* json.loads(s): ok = FALSE stands for the exception it raises
json_loads(s) ==
    LET r == ParseValue(s, SkipWS(s, 1))
    IN  IF r.ok /\ SkipWS(s, r.pos) = Len(s) + 1
        THEN [ok |-> TRUE, val |-> r.val]
        ELSE [ok |-> FALSE, val |-> None]

RECURSIVE DecimalDigits(_)
DecimalDigits(n) ==
    IF n < 10 THEN <<DigitChar(n)>>
    ELSE Append(DecimalDigits(n \div 10), DigitChar(n % 10))

DumpString(s) == <<Quote>> \o [k \in 1..Len(s) |-> EscapeChar(s[k])] \o <<Quote>>

RECURSIVE json_dumps(_), DumpItems(_, _)

\* the items of a list or dict, joined by ", "; a dict member is key ": " value
DumpItems(items, isDict) ==
    IF items = <<>> THEN <<>>
    ELSE LET one == IF isDict
                    THEN DumpString(Head(items)[1]) \o <<":", " ">>
                           \o json_dumps(Head(items)[2])
                    ELSE json_dumps(Head(items))
         IN  IF Len(items) = 1 THEN one
             ELSE one \o <<",", " ">> \o DumpItems(Tail(items), isDict)

\* json.dumps(x) with the default separators
json_dumps(x) ==
    CASE IsNone(x) -> <<"n", "u", "l", "l">>
      [] IsNum(x) -> DecimalDigits(x.num)
      [] IsStr(x) -> DumpString(x.str)
      [] IsList(x) -> <<"[">> \o DumpItems(x.arr, FALSE) \o <<"]">>
      [] IsDict(x) -> <<"{">> \o DumpItems(x.obj, TRUE) \o <<"}">>

----------------------------------------------------------------------------
(* safe_extract_json *)

\* re.sub(r"^```json\s*", "", clean, flags=re.IGNORECASE)
SubLeadingJsonFence(s) ==
    IF MatchAt(s, Fence, 1) /\ JsonWordAt(s, 4) THEN From(s, SkipWS(s, 8)) ELSE s

\* re.sub(r"^```\s*", "", clean, flags=re.IGNORECASE)
SubLeadingFence(s) ==
    IF MatchAt(s, Fence, 1) THEN From(s, SkipWS(s, 4)) ELSE s

\* re.sub(r"\s*```$", "", clean, flags=re.IGNORECASE): $ is the end of the
\* string, or the place before a newline that ends it
SubTrailingFence(s) ==
    LET n == Len(s)
        nl == n > 0 /\ s[n] = "\n"
        e == IF nl THEN n - 1 ELSE n
    IN  IF e >= 3 /\ MatchAt(s, Fence, e - 2)
        THEN SubSeq(s, 1, WSRunStart(s, e - 2, 1) - 1) \o (IF nl THEN <<"\n">> ELSE <<>>)
        ELSE s

\* the indices at which a fence starts
FenceStarts(s) == {i \in 1..Len(s) : MatchAt(s, Fence, i)}

\* m = re.search(r"```(?:json)?\s*([\s\S]*?)\s*```", clean, re.IGNORECASE):
\* the leftmost opening fence, the optional word and the whitespace after it
\* taken greedily, the group up to the whitespace before the next fence
SearchFence(s) ==
    IF FenceStarts(s) = {} THEN [found |-> FALSE, group |-> <<>>]
    ELSE LET i == Min(FenceStarts(s))
             w == IF JsonWordAt(s, i + 3) THEN i + 7 ELSE i + 3
             p == SkipWS(s, w)
             closing == {j \in FenceStarts(s) : j >= p}
         IN  IF closing = {} THEN [found |-> FALSE, group |-> <<>>]
             ELSE [found |-> TRUE,
                   group |-> SubSeq(s, p, WSRunStart(s, Min(closing), p) - 1)]

\* lines 104-113: the working text after the fence steps
FenceSteps(t) ==
    LET c1 == Strip(t)
        c2 == SubLeadingJsonFence(c1)
        c3 == SubLeadingFence(c2)
        c4 == Strip(SubTrailingFence(c3))
        m == SearchFence(c4)
    IN  IF m.found THEN Strip(m.group) ELSE c4

\* mutant: clean[first:last], the closing brace left out
BraceSlice_Exclusive(c) ==
    LET opens == {i \in 1..Len(c) : c[i] = "{"}
        closes == {i \in 1..Len(c) : c[i] = "}"}
    IN  IF opens # {} /\ closes # {} /\ Max(closes) > Min(opens)
        THEN SubSeq(c, Min(opens), Max(closes) - 1)
        ELSE c

\* lines 115-118: clean[first:last + 1] when both braces are found in order
BraceSlice(c) ==
    LET opens == {i \in 1..Len(c) : c[i] = "{"}
        closes == {i \in 1..Len(c) : c[i] = "}"}
    IN  IF opens # {} /\ closes # {} /\ Max(closes) > Min(opens)
        THEN SubSeq(c, Min(opens), Max(closes))
        ELSE c

\* safe_extract_json(text), for a str argument
safe_extract_json(t) ==
    LET r == json_loads(BraceSlice(FenceSteps(t)))
    IN  IF r.ok THEN r.val ELSE None

----------------------------------------------------------------------------
(* create_fallback and validate_deliverables.  The returned record is a     *)
(* TLA+ record of strings and lists of strings.                             *)

Placeholder == Word("No content was generated. Please try again.")

\* mutant: the placeholder is forgotten
RawOrPlaceholder_NoPlaceholder(raw) == raw

\* raw_text or "No content was generated. Please try again."
RawOrPlaceholder(raw) == IF raw # <<>> THEN raw ELSE Placeholder

create_fallback(raw) ==
    [systemSummary |-> Word("Draft system generated. You can regenerate to refine."),
     primaryDeliverable |->
        [title |-> Word("Generated Draft"), content |-> RawOrPlaceholder(raw)],
     supportingDeliverable |->
        [title |-> Word("Notes"),
         content |-> Word("This draft was auto-generated due to formatting issues.")],
     executionChecklist |->
        <<Word("Review the draft"), Word("Regenerate the system if needed"),
          Word("Customize before use")>>,
     nextActions |-> <<Word("Regenerate system")>>]

K_summary == Word("systemSummary")
K_primary == Word("primaryDeliverable")
K_supporting == Word("supportingDeliverable")
K_checklist == Word("executionChecklist")
K_next == Word("nextActions")
K_title == Word("title")
K_content == Word("content")
required == <<K_summary, K_primary, K_supporting, K_checklist, K_next>>

\* isinstance(x, str) and x.strip(), as a condition
NonBlankStr(x) == IsStr(x) /\ Strip(x.str) # <<>>

\* line 72, negated
SummaryOK(x) == NonBlankStr(x)

\* lines 78 and 80, negated
DeliverableOK(d) ==
    /\ IsDict(d)
    /\ IsStr(DictGet(d, K_title))
    /\ IsStr(DictGet(d, K_content))
    /\ Strip(Get(d, K_content).str) # <<>>

\* mutant: the len(...) > 0 test is dropped
ListOK_NoLength(x) ==
    /\ IsList(x)
    /\ \A i \in 1..Len(x.arr) : IsStr(x.arr[i])

\* lines 86 and 88, negated
ListOK(x) ==
    /\ IsList(x)
    /\ Len(x.arr) > 0
    /\ \A i \in 1..Len(x.arr) : IsStr(x.arr[i])

RECURSIVE StrippedItems(_)
\* [x.strip() for x in xs if isinstance(x, str) and x.strip()]
StrippedItems(xs) ==
    IF xs = <<>> THEN <<>>
    ELSE IF NonBlankStr(Head(xs))
         THEN <<Strip(Head(xs).str)>> \o StrippedItems(Tail(xs))
         ELSE StrippedItems(Tail(xs))

\* lines 93-94
StrippedDeliverable(d) ==
    [title |-> Strip(Get(d, K_title).str), content |-> Strip(Get(d, K_content).str)]

Invalid(raw) == [valid |-> FALSE, data |-> create_fallback(raw), rawText |-> raw]

validate_deliverables(p, raw) ==
    IF ~IsDict(p) THEN Invalid(raw)
    ELSE IF \E i \in 1..Len(required) : ~HasKey(p, required[i]) THEN Invalid(raw)
    ELSE IF ~SummaryOK(Get(p, K_summary)) THEN Invalid(raw)
    ELSE IF ~DeliverableOK(Get(p, K_primary)) THEN Invalid(raw)
    ELSE IF ~DeliverableOK(Get(p, K_supporting)) THEN Invalid(raw)
    ELSE IF ~ListOK(Get(p, K_checklist)) THEN Invalid(raw)
    ELSE IF ~ListOK(Get(p, K_next)) THEN Invalid(raw)
    ELSE [valid |-> TRUE,
          data |->
            [systemSummary |-> Strip(Get(p, K_summary).str),
             primaryDeliverable |-> StrippedDeliverable(Get(p, K_primary)),
             supportingDeliverable |-> StrippedDeliverable(Get(p, K_supporting)),
             executionChecklist |-> StrippedItems(Get(p, K_checklist).arr),
             nextActions |-> StrippedItems(Get(p, K_next).arr)],
          rawText |-> raw]

----------------------------------------------------------------------------
(* call_gemini.  The transport (requests.post) either raises or returns a   *)
(* response with a status code and a body text.                             *)

SuccessStatus == 200
ExcerptLength == 500

BundleNames == {"landing_email", "ads_pack", "offer_pricing", "outreach_pack", "custom"}
BUNDLE_PROMPTS ==
    [b \in BundleNames |->
        CASE b = "landing_email" -> Word("Generate a landing page + email funnel bundle.")
          [] b = "ads_pack" ->
               Word("Generate an ads pack with TikTok hooks, Meta ads, and Google keywords.")
          [] b = "offer_pricing" -> Word("Generate offer and pricing page copy.")
          [] b = "outreach_pack" ->
               Word("Generate an outreach pack with cold emails and LinkedIn DMs.")
          [] b = "custom" ->
               Word("Generate custom deliverables based on the user's specific request.")]

\* BUNDLE_PROMPTS.get(bundle, BUNDLE_PROMPTS["custom"])
bundle_instructions(bundle) ==
    IF bundle \in DOMAIN BUNDLE_PROMPTS THEN BUNDLE_PROMPTS[bundle]
    ELSE BUNDLE_PROMPTS["custom"]

\* lines 134-181 and 190: system_prompt + "\n\n" + user_prompt, the fixed
\* parts of the two templates as opaque words
PromptText(a) ==
    Word("<role, rules and schema>") \o <<"\n", "\n">> \o bundle_instructions(a.bundle)
      \o <<"\n", "\n">> \o Word("<closing advice>") \o <<"\n", "\n">>
      \o Word("Business Type:") \o <<" ">> \o a.business_type \o <<"\n">>
      \o Word("Bundle:") \o <<" ">> \o Word(a.bundle) \o <<"\n">>
      \o Word("Project Title:") \o <<" ">> \o a.project_title \o <<"\n">>
      \o Word("Request:") \o <<" ">> \o a.prompt \o <<"\n", "\n">>
      \o Word("Generate the complete deliverables package as JSON.")

\* x[k] for a str key: only a dict that has the key answers, anything else
\* raises (KeyError, TypeError)
Subscript(r, k) ==
    IF r.ok /\ IsDict(r.val) /\ HasKey(r.val, k)
    THEN [ok |-> TRUE, val |-> Get(r.val, k)]
    ELSE [ok |-> FALSE, val |-> None]

\* x[0]: the first item of a non-empty list, the first character of a
\* non-empty str; anything else raises (IndexError, KeyError, TypeError)
First(r) ==
    IF r.ok /\ IsList(r.val) /\ Len(r.val.arr) > 0
    THEN [ok |-> TRUE, val |-> r.val.arr[1]]
    ELSE IF r.ok /\ IsStr(r.val) /\ Len(r.val.str) > 0
    THEN [ok |-> TRUE, val |-> Str(<<r.val.str[1]>>)]
    ELSE [ok |-> FALSE, val |-> None]

\* data["candidates"][0]["content"]["parts"][0]["text"]
TextPath(data) ==
    Subscript(First(Subscript(Subscript(First(Subscript(
        [ok |-> TRUE, val |-> data], Word("candidates"))), Word("content")),
        Word("parts"))), Word("text"))

\* mutant: a body without the text path gives no text at all
ResponseText_NoFallback(data) ==
    IF TextPath(data).ok THEN TextPath(data).val ELSE Str(<<>>)

\* lines 213-217: the text at the path, json.dumps(data) when the path raises
ResponseText(data) ==
    IF TextPath(data).ok THEN TextPath(data).val ELSE Str(json_dumps(data))

\* line 219: text if isinstance(text, str) else json.dumps(text)
RawText(x) == IF IsStr(x) THEN x.str ELSE json_dumps(x)

Failure(error, raw) == [ok |-> FALSE, error |-> error, rawText |-> raw, parsed |-> Unset]
\* a Success dict has no "error" key: the field is left empty
Success(raw, p) == [ok |-> TRUE, error |-> <<>>, rawText |-> raw, parsed |-> p]

\* lines 126-131
NoCredential ==
    Failure(Word("Service temporarily unavailable. Please try again in a moment."), <<>>)

\* line 223, e the exception's message
RequestFailed(e) ==
    Failure(Word("Request failed:") \o <<" ">> \o e, Word("Error:") \o <<" ">> \o e)

\* the message of the exception r.json() raises on a body that is no JSON
DecodeErrorMessage == Word("Expecting value")

\* r.text[:500]
Excerpt(body) ==
    IF Len(body) <= ExcerptLength THEN body ELSE SubSeq(body, 1, ExcerptLength)

\* lines 203-207
StatusFailure(status, body) ==
    Failure(Word("Gemini error") \o <<" ">> \o DecimalDigits(status) \o <<":", " ">>
              \o Excerpt(body),
            Word("Gemini failed with status") \o <<" ">> \o DecimalDigits(status)
              \o <<":", " ">> \o body)

\* mutant: every 2xx status counts as a success
IsFailureStatus_Non2xx(status) == status \notin 200..299

\* line 202
IsFailureStatus(status) == status # SuccessStatus

\* lines 209-221, for a response with the success status
OnSuccessStatus(body) ==
    LET data == json_loads(body)
    IN  IF ~data.ok THEN RequestFailed(DecodeErrorMessage)
        ELSE LET raw == RawText(ResponseText(data.val))
             IN  Success(raw, safe_extract_json(raw))

\* mutant: the credential test is skipped
call_gemini_NoKeyTest(key, a, tr) ==
    [posted |-> TRUE, request |-> PromptText(a),
     result |-> IF tr.kind = "raise" THEN RequestFailed(tr.exc)
                ELSE IF IsFailureStatus(tr.status) THEN StatusFailure(tr.status, tr.body)
                ELSE OnSuccessStatus(tr.body)]

\* call_gemini(prompt, business_type, bundle, project_title) with the
\* credential key and the transport's answer tr: the GatewayResult, whether
\* requests.post was called, and the prompt text posted
call_gemini(key, a, tr) ==
    IF ~key THEN [posted |-> FALSE, request |-> <<>>, result |-> NoCredential]
    ELSE [posted |-> TRUE, request |-> PromptText(a),
          result |-> IF tr.kind = "raise" THEN RequestFailed(tr.exc)
                     ELSE IF IsFailureStatus(tr.status)
                          THEN StatusFailure(tr.status, tr.body)
                     ELSE OnSuccessStatus(tr.body)]

----------------------------------------------------------------------------
(* The Generate handler (lines 254-323) *)

FREE_LIMIT == 3

\* mutant: only a successful generation is counted
UsesAfterCall_OnlySuccess(uses, result) == IF result.ok THEN uses - 1 ELSE uses

\* line 272
UsesAfterCall(uses, result) == uses - 1

\* line 255
LimitReached(uses) == uses <= 0

\* s.strip() or default
StripOr(s, default) == IF Strip(s) # <<>> THEN Strip(s) ELSE default

\* lines 264-269: the arguments of call_gemini
HandlerArgs(p, bt, b, pt) ==
    [prompt |-> Strip(p), business_type |-> StripOr(bt, Word("general")),
     bundle |-> b, project_title |-> StripOr(pt, Word("Compass Generation"))]

\* line 276: raw_text or ai.get("error", "Unknown error")
FailureText(result) == IF result.rawText # <<>> THEN result.rawText ELSE result.error

\* lines 275-295: the fallback record, then the error message
FailureScreen(result) ==
    [kind |-> "failure", warning |-> TRUE,
     record |-> create_fallback(FailureText(result)), error |-> result.error]

\* lines 297-319: the validated record, under a warning when it is a fallback
RecordScreen(outcome) ==
    [kind |-> "record", warning |-> ~outcome.valid, record |-> outcome.data,
     error |-> <<>>]

----------------------------------------------------------------------------
(* Inputs of the extractor: a JSON text (a sample value, serialized in one  *)
(* of three styles) or a malformed text, between a prefix and a suffix.     *)

MaxStr == 2

SeqsUpTo(S, n) == UNION {[1..k -> S] : k \in 0..n}

StrAlphabet == {"a", "{", "}", " "}
StrSamples ==
    SeqsUpTo(StrAlphabet, MaxStr)
      \cup {<<Tick, Tick, Tick, "a", Tick, Tick, Tick>>, <<Quote, "}">>}

ScalarSamples == {Str(s) : s \in StrSamples} \cup {Num(1), Num(20), None}
ValueSamples ==
    ScalarSamples
      \cup {Arr(<<x>>) : x \in ScalarSamples}
      \cup {Obj(<<<<Word("a"), x>>>>) : x \in ScalarSamples}
      \cup {Arr(<<>>), Obj(<<>>), Arr(<<Num(1), Num(2)>>),
            Arr(<<Obj(<<<<Word("a"), Num(1)>>>>)>>),
            Arr(<<Obj(<<<<Word("a"), Num(1)>>>>), Obj(<<<<Word("b"), Num(2)>>>>)>>),
            Obj(<<<<Word("a"), Num(1)>>, <<Word("b"), Arr(<<Str(Word("c"))>>)>>>>),
            Obj(<<<<Word("a"), Obj(<<<<Word("b"), Num(1)>>>>)>>>>)}

\* index i of the JSON text s lies inside a string literal
InString(s, i) == Cardinality({j \in 1..(i - 1) : s[j] = Quote}) % 2 = 1

\* the same JSON text with the braces and backticks of its strings written
\* as \uXXXX escapes
WithUnicodeEscapes(s) ==
    [i \in 1..Len(s) |->
        IF ~InString(s, i) THEN s[i]
        ELSE CASE s[i] = "{" -> "\\u007b"
               [] s[i] = "}" -> "\\u007d"
               [] s[i] = Tick -> "\\u0060"
               [] OTHER -> s[i]]

RECURSIVE CompactFrom(_, _)
CompactFrom(s, i) ==
    IF i > Len(s) THEN <<>>
    ELSE IF s[i] = " " /\ ~InString(s, i) THEN CompactFrom(s, i + 1)
    ELSE <<s[i]>> \o CompactFrom(s, i + 1)
\* the same JSON text without the spaces between its tokens
Compact(s) == CompactFrom(s, 1)

Styles == {"dumps", "compact", "escaped"}
Encode(x, style) ==
    CASE style = "dumps" -> json_dumps(x)
      [] style = "compact" -> Compact(json_dumps(x))
      [] style = "escaped" -> WithUnicodeEscapes(json_dumps(x))

Malformed ==
    {<<>>, <<"not", " ", "j", "s", "o", "n", " ", "at", " ", "all">>,
     <<"{", Quote, "a", Quote, ":", "}">>, <<"{", "{", "}">>, <<"}", "{">>,
     <<"[", "1", ",", "]">>, <<"0", "1">>, <<Quote, "a">>,
     <<"{", Quote, "a", Quote, ":", "1", ",", Quote, "a", Quote, ":", "2", "}">>}

Cores == {Encode(x, st) : x \in ValueSamples, st \in Styles} \cup Malformed

ProsePrefixes == {<<>>, <<"Here", " ", "is", ":", " ">>, <<"\n", " ">>}
ProseSuffixes == {<<>>, <<" ", "Hope", " ", "it", " ", "helps!">>, <<"\n">>}
Prefixes ==
    ProsePrefixes
      \cup {Fence \o <<"j", "s", "o", "n", "\n">>, Fence \o <<"\n">>,
            Fence \o <<"J", "S", "O", "N", " ">>,
            <<"Sure", ":", "\n">> \o Fence \o <<"j", "s", "o", "n", "\n">>,
            Fence \o <<"j", "s", "o", "n">> \o Fence \o <<" ">>,
            <<"see", " ", "{", "x", "}", " ">>}
Suffixes ==
    ProseSuffixes
      \cup {<<"\n">> \o Fence, <<"\n">> \o Fence \o <<"\n", "bye">>,
            Fence \o <<"\n">>, <<" ", "}">>}

Texts == {p \o c \o q : p \in Prefixes, c \in Cores, q \in Suffixes}

----------------------------------------------------------------------------
(* Idle values of the variables a specification does not use *)

NoOutcome == [valid |-> FALSE, data |-> Unset, rawText |-> <<>>]
NoTransport == [kind |-> "none", exc |-> <<>>, status |-> 0, body |-> <<>>]
NoResult == [ok |-> FALSE, error |-> <<>>, rawText |-> <<>>, parsed |-> Unset]
NoScreen == [kind |-> "none", warning |-> FALSE, record |-> Unset, error |-> <<>>]

ExtractorIdle ==
    /\ text = <<>> /\ parsed = Unset /\ reparsed = Unset
ValidatorIdle ==
    /\ cand = Unset /\ raw_text = <<>> /\ validated = NoOutcome
GatewayIdle ==
    /\ transport = NoTransport /\ request = <<>> /\ ai = NoResult /\ net_calls = 0
SessionIdle ==
    /\ gw_calls = 0 /\ uses_left = 0 /\ prompt = <<>> /\ screen = NoScreen

----------------------------------------------------------------------------
(* The extractor applied to a text, and again to its serialized result *)

InitExtract ==
    /\ phase = "input"
    /\ text \in Texts
    /\ parsed = Unset /\ reparsed = Unset
    /\ ValidatorIdle /\ GatewayIdle /\ SessionIdle
    /\ GEMINI_API_KEY = FALSE

Extract ==
    /\ phase = "input"
    /\ parsed' = safe_extract_json(text)
    /\ phase' = "extracted"
    /\ UNCHANGED <<text, reparsed, GEMINI_API_KEY, validatorVars, gatewayVars,
                   sessionVars>>

ExtractAgain ==
    /\ phase = "extracted"
    /\ ~IsNone(parsed)
    /\ reparsed' = safe_extract_json(json_dumps(parsed))
    /\ phase' = "reextracted"
    /\ UNCHANGED <<text, parsed, GEMINI_API_KEY, validatorVars, gatewayVars,
                   sessionVars>>

NextExtract == Extract \/ ExtractAgain

SpecExtract == InitExtract /\ [][NextExtract]_vars

----------------------------------------------------------------------------
(* Inputs of the validator: every kind of candidate (absent, scalar, array, *)
(* object), the objects built field by field; a field is absent (Unset) or  *)
(* holds one of the listed values.                                          *)

MaxItems == 2

RECURSIVE Present(_)
\* the pairs whose value is not Unset
Present(pairs) ==
    IF pairs = <<>> THEN <<>>
    ELSE IF IsUnset(Head(pairs)[2]) THEN Present(Tail(pairs))
    ELSE <<Head(pairs)>> \o Present(Tail(pairs))

Package(s, pd, sd, ec, na) ==
    Obj(Present(<<<<K_summary, s>>, <<K_primary, pd>>, <<K_supporting, sd>>,
                  <<K_checklist, ec>>, <<K_next, na>>>>))

Deliverable(t, c) == Obj(Present(<<<<K_title, t>>, <<K_content, c>>>>))

SummaryOptions ==
    {Unset, Num(1), Str(<<>>), Str(<<" ", "\n">>), Str(<<"ok">>),
     Str(<<" ", "two", " ", "words", "\n">>)}
PrimaryOptions ==
    {Unset, Str(<<"T">>), Arr(<<>>),
     Deliverable(Unset, Str(<<"c">>)), Deliverable(Str(<<"T">>), Unset),
     Deliverable(Num(1), Str(<<"c">>)), Deliverable(Str(<<"T">>), Str(<<" ", " ">>)),
     Deliverable(Str(<<"T">>), Str(<<" ", "c", " ">>)),
     Deliverable(Str(<<" ">>), Str(<<"c">>)), Deliverable(Str(<<>>), Str(<<"c", " ", "d">>))}
SupportingOptions ==
    {Unset, None, Deliverable(Str(<<"T">>), Str(<<"\t">>)),
     Deliverable(Str(<<" ", "T">>), Str(<<"c">>))}
ItemSamples == {Str(<<" ">>), Str(<<"a">>), Str(<<" ", "a", " ", "b", " ">>), Num(1)}
ChecklistOptions ==
    {Unset, Str(<<"a">>), Obj(<<>>)} \cup {Arr(xs) : xs \in SeqsUpTo(ItemSamples, MaxItems)}
NextOptions ==
    {Unset, Arr(<<>>), Arr(<<Num(1)>>), Arr(<<Str(<<" ">>)>>), Arr(<<Str(<<"b">>)>>),
     Arr(<<Str(<<"b">>), Str(<<>>)>>)}

Candidates ==
    {None, Num(1), Str(<<"ok">>), Arr(<<>>), Arr(<<Str(<<"a">>)>>)}
      \cup {Package(s, pd, sd, ec, na) :
              s \in SummaryOptions, pd \in PrimaryOptions, sd \in SupportingOptions,
              ec \in ChecklistOptions, na \in NextOptions}

RawTexts == {<<>>, <<" ">>, <<"raw", " ", "text">>}

InitValidate ==
    /\ phase = "input"
    /\ cand \in Candidates
    /\ raw_text \in RawTexts
    /\ validated = NoOutcome
    /\ ExtractorIdle /\ GatewayIdle /\ SessionIdle
    /\ GEMINI_API_KEY = FALSE

Validate ==
    /\ phase = "input"
    /\ validated' = validate_deliverables(cand, raw_text)
    /\ phase' = "validated"
    /\ UNCHANGED <<cand, raw_text, GEMINI_API_KEY, extractorVars, gatewayVars,
                   sessionVars>>

NextValidate == Validate

SpecValidate == InitValidate /\ [][NextValidate]_vars

----------------------------------------------------------------------------
(* Inputs of the gateway: the texts a model may answer, wrapped in response *)
(* bodies of the expected shape, bodies of other shapes, bodies that are no *)
(* JSON, error bodies around the excerpt length, and transport exceptions.  *)

MaxCalls == 2

GoodDeliverable == Deliverable(Str(<<"T">>), Str(<<"c">>))
ValidPackage ==
    Package(Str(<<"ok">>), GoodDeliverable, GoodDeliverable,
            Arr(<<Str(<<"a">>)>>), Arr(<<Str(<<"b">>)>>))
BlankItemPackage ==
    Package(Str(<<"ok">>), GoodDeliverable, GoodDeliverable,
            Arr(<<Str(<<" ">>)>>), Arr(<<Str(<<"b">>)>>))
BlankSummaryPackage ==
    Package(Str(<<>>), GoodDeliverable, GoodDeliverable,
            Arr(<<Str(<<"a">>)>>), Arr(<<Str(<<"b">>)>>))
NoChecklistPackage ==
    Package(Str(<<"ok">>), GoodDeliverable, GoodDeliverable, Unset, Arr(<<Str(<<"b">>)>>))

ModelTexts ==
    {json_dumps(ValidPackage),
     Fence \o <<"j", "s", "o", "n", "\n">> \o json_dumps(ValidPackage) \o <<"\n">> \o Fence,
     <<"Here", " ", "is", ":", " ">> \o json_dumps(ValidPackage) \o <<"\n", "Done.">>,
     json_dumps(BlankItemPackage), json_dumps(BlankSummaryPackage),
     json_dumps(NoChecklistPackage),
     <<"not", " ", "j", "s", "o", "n">>, <<>>, <<" ">>}

\* {"candidates": [{"content": {"parts": [{"text": x}]}}]}
WithText(x) ==
    Obj(<<<<Word("candidates"),
           Arr(<<Obj(<<<<Word("content"),
                        Obj(<<<<Word("parts"),
                               Arr(<<Obj(<<<<Word("text"), x>>>>)>>)>>>>)>>>>)>>)>>>>)

OtherShapes ==
    {Obj(<<>>), Arr(<<Num(1)>>), Str(<<"ok">>),
     Obj(<<<<Word("candidates"), Arr(<<>>)>>>>),
     Obj(<<<<Word("candidates"), Str(<<"abc">>)>>>>),
     Obj(<<<<Word("candidates"), Arr(<<Str(<<"abc">>)>>)>>>>),
     Obj(<<<<Word("candidates"),
            Arr(<<Obj(<<<<Word("content"), Obj(<<<<Word("parts"), Arr(<<>>)>>>>)>>>>)>>)>>>>),
     Obj(<<<<Word("error"), Obj(<<<<Word("message"), Str(<<"quota">>)>>>>)>>>>)}

NotJson == {<<>>, <<"oops">>, <<"<html>", " ", "502", " ", "</html>">>}

SuccessBodies ==
    {json_dumps(WithText(Str(t))) : t \in ModelTexts}
      \cup {json_dumps(WithText(x)) : x \in {Num(1), None, ValidPackage}}
      \cup {json_dumps(x) : x \in OtherShapes}
      \cup NotJson

\* an error page of n characters
LongBody(n) == [i \in 1..n |-> IF i % 2 = 0 THEN "x" ELSE "y"]
ErrorBodies ==
    {<<"oops">>, <<>>, json_dumps(Obj(<<<<Word("error"), Str(<<"bad", " ", "key">>)>>>>))}
      \cup {LongBody(n) : n \in (ExcerptLength - 1)..(ExcerptLength + 1)}

Statuses == {200, 201, 204, 404, 500}

Raised(e) == [kind |-> "raise", exc |-> e, status |-> 0, body |-> <<>>]
Response(st, b) == [kind |-> "response", exc |-> <<>>, status |-> st, body |-> b]

Transports ==
    {Raised(Word("Read timed out.")), Raised(Word("Connection refused"))}
      \cup {Response(SuccessStatus, b) : b \in SuccessBodies}
      \cup {Response(st, b) : st \in Statuses, b \in ErrorBodies}

GatewayArgs ==
    {[prompt |-> <<"make", " ", "ads">>, business_type |-> Word("saas"),
      bundle |-> "ads_pack", project_title |-> Word("Launch")],
     [prompt |-> <<"x">>, business_type |-> Word("general"),
      bundle |-> "no_such_bundle", project_title |-> Word("Compass Generation")]}

InitGateway ==
    /\ phase = "idle"
    /\ GEMINI_API_KEY \in BOOLEAN
    /\ GatewayIdle
    /\ ExtractorIdle /\ ValidatorIdle /\ SessionIdle

\* one call of call_gemini against a transport double programmed with tr
CallGemini ==
    \E a \in GatewayArgs, tr \in Transports :
        \E r \in {call_gemini(GEMINI_API_KEY, a, tr)} :
            /\ net_calls < MaxCalls
            /\ transport' = tr
            /\ ai' = r.result
            /\ request' = r.request
            /\ net_calls' = IF r.posted THEN net_calls + 1 ELSE net_calls
            /\ phase' = "called"
            /\ UNCHANGED <<GEMINI_API_KEY, extractorVars, validatorVars, sessionVars>>

NextGateway == CallGemini

SpecGateway == InitGateway /\ [][NextGateway]_vars

----------------------------------------------------------------------------
(* One session of the page: Generate clicks *)

Prompts == {<<>>, <<" ", "\n">>, <<" ", "make", " ", "ads", " ">>}
Sidebar ==
    {[business_type |-> <<" ">>, bundle |-> "custom", project_title |-> <<>>],
     [business_type |-> Word("saas"), bundle |-> "ads_pack",
      project_title |-> <<"My", " ", "launch">>]}

SessionTransports ==
    {Raised(Word("Read timed out.")), Response(500, <<"oops">>),
     Response(201, json_dumps(WithText(Str(json_dumps(ValidPackage))))),
     Response(SuccessStatus, <<"oops">>),
     Response(SuccessStatus, json_dumps(Obj(<<>>))),
     Response(SuccessStatus, json_dumps(WithText(ValidPackage)))}
      \cup {Response(SuccessStatus, json_dumps(WithText(Str(t)))) : t \in ModelTexts}

Init ==
    /\ phase = "idle"
    /\ GEMINI_API_KEY \in BOOLEAN
    /\ gw_calls = 0
    /\ uses_left = FREE_LIMIT
    /\ prompt = <<>>
    /\ screen = NoScreen
    /\ GatewayIdle /\ ExtractorIdle /\ ValidatorIdle

\* lines 255-257: st.warning("Free limit reached."); st.stop()
ClickAtLimit(p) ==
    /\ LimitReached(uses_left)
    /\ prompt' = p
    /\ screen' = [NoScreen EXCEPT !.kind = "limit", !.warning = TRUE]
    /\ phase' = "rendered"
    /\ UNCHANGED <<gw_calls, uses_left, GEMINI_API_KEY, gatewayVars, extractorVars,
                   validatorVars>>

\* lines 259-261: st.error("Please enter a prompt."); st.stop()
ClickBlankPrompt(p) ==
    /\ ~LimitReached(uses_left)
    /\ Strip(p) = <<>>
    /\ prompt' = p
    /\ screen' = [NoScreen EXCEPT !.kind = "no_prompt",
                                  !.error = Word("Please enter a prompt.")]
    /\ phase' = "rendered"
    /\ UNCHANGED <<gw_calls, uses_left, GEMINI_API_KEY, gatewayVars, extractorVars,
                   validatorVars>>

\* lines 263-323: the call, the decrement, and one of the two renderings
ClickGenerate(p, side, tr) ==
    /\ ~LimitReached(uses_left)
    /\ Strip(p) # <<>>
    /\ \E r \in {call_gemini(GEMINI_API_KEY,
                              HandlerArgs(p, side.business_type, side.bundle,
                                          side.project_title), tr)} :
          /\ prompt' = p
          /\ transport' = tr
          /\ request' = r.request
          /\ net_calls' = IF r.posted THEN net_calls + 1 ELSE net_calls
          /\ ai' = r.result
          /\ gw_calls' = gw_calls + 1
          /\ uses_left' = UsesAfterCall(uses_left, r.result)
          /\ IF ~r.result.ok
             THEN /\ screen' = FailureScreen(r.result)
                  /\ UNCHANGED validatorVars
             ELSE \E outcome \in {validate_deliverables(r.result.parsed,
                                                        r.result.rawText)} :
                      /\ cand' = r.result.parsed
                      /\ raw_text' = r.result.rawText
                      /\ validated' = outcome
                      /\ screen' = RecordScreen(outcome)
    /\ phase' = "rendered"
    /\ UNCHANGED <<GEMINI_API_KEY, extractorVars>>

\* if generate: (line 254)
Generate ==
    \E p \in Prompts :
        \/ ClickAtLimit(p)
        \/ ClickBlankPrompt(p)
        \/ \E side \in Sidebar, tr \in SessionTransports : ClickGenerate(p, side, tr)

Next == Generate

Spec == Init /\ [][Next]_vars

----------------------------------------------------------------------------
(* Properties of the validator (SpecValidate) *)

NonBlank(s) == \E i \in 1..Len(s) : s[i] \notin WS
Trimmed(s) == s = <<>> \/ (s[1] \notin WS /\ s[Len(s)] \notin WS)
NonEmptyTrimmed(s) == NonBlank(s) /\ Trimmed(s)

\* the DeliverablesPackage schema: every field a non-empty trimmed string,
\* both lists non-empty with non-empty trimmed items
SchemaHolds(d) ==
    /\ NonEmptyTrimmed(d.systemSummary)
    /\ NonEmptyTrimmed(d.primaryDeliverable.content)
    /\ NonEmptyTrimmed(d.supportingDeliverable.content)
    /\ Len(d.executionChecklist) >= 1
    /\ \A i \in 1..Len(d.executionChecklist) : NonEmptyTrimmed(d.executionChecklist[i])
    /\ Len(d.nextActions) >= 1
    /\ \A i \in 1..Len(d.nextActions) : NonEmptyTrimmed(d.nextActions[i])

\* C1: for every candidate and raw text the record validate_deliverables
\* returns satisfies the full DeliverablesPackage schema, in the Valid and in
\* the Fallback branch.
C1_OutputSatisfiesSchema ==
    phase = "validated" => SchemaHolds(validated.data)

\* the member of object x under key k is a value that satisfies P
C2_Field(x, k, P(_)) == \E i \in 1..Len(x.obj) : x.obj[i][1] = k /\ P(x.obj[i][2])
C2_AnyValue(x) == TRUE
C2_String(x) == DOMAIN x = {"str"}
C2_NonBlankString(x) == DOMAIN x = {"str"} /\ NonBlank(x.str)
C2_Deliverable(x) ==
    /\ DOMAIN x = {"obj"}
    /\ C2_Field(x, <<"title">>, C2_String)
    /\ C2_Field(x, <<"content">>, C2_NonBlankString)
C2_StringList(x) ==
    /\ DOMAIN x = {"arr"}
    /\ Len(x.arr) >= 1
    /\ \A i \in 1..Len(x.arr) : DOMAIN x.arr[i] = {"str"}
C2_Predicate(x) ==
    /\ DOMAIN x = {"obj"}
    /\ C2_Field(x, <<"systemSummary">>, C2_NonBlankString)
    /\ C2_Field(x, <<"primaryDeliverable">>, C2_Deliverable)
    /\ C2_Field(x, <<"supportingDeliverable">>, C2_Deliverable)
    /\ C2_Field(x, <<"executionChecklist">>, C2_StringList)
    /\ C2_Field(x, <<"nextActions">>, C2_StringList)

\* C2: validate_deliverables returns the Valid tag exactly when the candidate
\* is an object with the five keys, a non-blank string summary, two
\* deliverable objects with a string title and a non-blank string content, and
\* two non-empty lists of strings; it returns the Fallback tag otherwise.
C2_ValidIffPredicate ==
    phase = "validated" => (validated.valid <=> C2_Predicate(cand))

\* a candidate that misses validity only by its empty checklist is rejected
C2_Witness ==
    /\ phase = "validated"
    /\ cand = Package(Str(<<"ok">>), Deliverable(Str(<<"T">>), Str(<<" ", "c", " ">>)),
                      Deliverable(Str(<<" ", "T">>), Str(<<"c">>)), Arr(<<>>),
                      Arr(<<Str(<<"b">>)>>))
    /\ ~validated.valid

\* the fallback record, written out as a function of the raw text
C3_Fallback(raw) ==
    [systemSummary |-> <<"Draft system generated. You can regenerate to refine.">>,
     primaryDeliverable |->
        [title |-> <<"Generated Draft">>,
         content |-> IF Len(raw) > 0 THEN raw
                     ELSE <<"No content was generated. Please try again.">>],
     supportingDeliverable |->
        [title |-> <<"Notes">>,
         content |-> <<"This draft was auto-generated due to formatting issues.">>],
     executionChecklist |->
        <<<<"Review the draft">>, <<"Regenerate the system if needed">>,
          <<"Customize before use">>>>,
     nextActions |-> <<<<"Regenerate system">>>>]

\* C3: on every validation failure the returned record is a function of the
\* raw text alone (fixed summary, supporting deliverable, 3-item checklist and
\* 1-item next actions, primary title "Generated Draft", primary content the
\* raw text or the placeholder when it is empty), and the outcome carries the
\* raw text unchanged.
C3_FallbackFromRawTextAlone ==
    (phase = "validated" /\ ~validated.valid) =>
        /\ validated.data = C3_Fallback(raw_text)
        /\ validated.rawText = raw_text

\* a failing object candidate with an empty raw text gets the placeholder
C3_Witness ==
    /\ phase = "validated"
    /\ ~validated.valid
    /\ IsDict(cand)
    /\ raw_text = <<>>
    /\ validated.data.primaryDeliverable.content
         = <<"No content was generated. Please try again.">>

----------------------------------------------------------------------------
(* Properties of the extractor (SpecExtract) *)

\* C4: for every text whose extraction is a structured value v, extracting
\* from the JSON serialization of v returns v again.
C4_ExtractionIdempotent ==
    phase = "reextracted" => reparsed = parsed

\* the value of a JSON text, None when it does not parse
C5_ParseOrNone(s) == IF json_loads(s).ok THEN json_loads(s).val ELSE None

\* the inclusive span from the first "{" to the last "}" of w, when the first
\* comes before the last; w itself otherwise
C5_Span(w) ==
    IF \E i, j \in 1..Len(w) : i < j /\ w[i] = "{" /\ w[j] = "}"
    THEN LET first == CHOOSE i \in 1..Len(w) :
                        w[i] = "{" /\ \A k \in 1..(i - 1) : w[k] # "{"
             last == CHOOSE j \in 1..Len(w) :
                        w[j] = "}" /\ \A k \in (j + 1)..Len(w) : w[k] # "}"
         IN  [k \in 1..(last - first + 1) |-> w[first + k - 1]]
    ELSE w

C5_Objects ==
    {x \in ValueSamples : IsDict(x) /\ \A i \in 1..Len(json_dumps(x)) : json_dumps(x)[i] # Tick}

\* a single JSON object between brace-free prose: the object is the result
C5_ProseExamples ==
    {[t |-> p \o Encode(x, st) \o q, val |-> x] :
        p \in ProsePrefixes, q \in ProseSuffixes, x \in C5_Objects,
        st \in {"dumps", "compact"}}

\* the object inside a json fence, as the whole text
C5_FenceExamples ==
    {[t |-> Fence \o <<"j", "s", "o", "n", "\n">> \o Encode(x, st) \o <<"\n">> \o Fence,
      val |-> x] : x \in C5_Objects, st \in {"dumps", "compact"}}

C5_Values == {"none", "num", "str", "arr", "obj"}

\* C5: safe_extract_json returns a structured value or the absence signal for
\* every text; the result is the parse of the inclusive span from the first
\* "{" to the last "}" of the working text left by the fence steps (of the
\* whole working text when there is no such span), and None when that does
\* not parse; prose around a single JSON object and a json fence around it are
\* discarded.
C5_ExtractParsesBraceSpan ==
    phase # "input" =>
        /\ DOMAIN parsed \subseteq C5_Values
        /\ parsed = C5_ParseOrNone(C5_Span(FenceSteps(text)))
        /\ \A ex \in C5_ProseExamples \cup C5_FenceExamples :
              text = ex.t => parsed = ex.val

\* prose before and after {"a":1}: the object comes out
C5_Witness ==
    /\ phase = "extracted"
    /\ text = <<"Here", " ", "is", ":", " ">>
                \o <<"{", Quote, "a", Quote, ":", "1", "}">>
                \o <<" ", "Hope", " ", "it", " ", "helps!">>
    /\ parsed = Obj(<<<<Word("a"), Num(1)>>>>)

----------------------------------------------------------------------------
(* Properties of the gateway (SpecGateway) *)

\* C6: without a credential every call_gemini call returns the Failure with
\* the fixed message and an empty raw text, and posts nothing, whatever its
\* arguments and whatever the transport would have answered.
C6_NoCredentialFailure ==
    (phase = "called" /\ ~GEMINI_API_KEY) =>
        /\ ai = [ok |-> FALSE,
                 error |-> <<"Service temporarily unavailable. Please try again in a moment.">>,
                 rawText |-> <<>>, parsed |-> Unset]
        /\ net_calls = 0
        /\ request = <<>>

\* no credential, and a transport that would have answered 200 with a valid
\* package: the call fails without a request
C6_Witness ==
    /\ phase = "called"
    /\ ~GEMINI_API_KEY
    /\ transport = Response(200, json_dumps(WithText(Str(json_dumps(ValidPackage)))))
    /\ ~ai.ok
    /\ net_calls = 0

C7_Digit(d) == <<"0", "1", "2", "3", "4", "5", "6", "7", "8", "9">>[d + 1]
\* the decimal digits of a three-digit status code
C7_Status(n) == <<C7_Digit(n \div 100), C7_Digit((n \div 10) % 10), C7_Digit(n % 10)>>
\* the first 500 characters of the body, the whole body when it is shorter
C7_First500(body) ==
    [i \in 1..(IF Len(body) < 500 THEN Len(body) ELSE 500) |-> body[i]]
\* a response was received by a call made with a credential
C7_Answered == phase = "called" /\ GEMINI_API_KEY /\ transport.kind = "response"

\* C7 as stated: with a credential and a response, call_gemini returns Failure
\* exactly when the status is not a 2xx status.
C7_FailureIffNon2xx ==
    C7_Answered => (~ai.ok <=> transport.status \notin 200..299)

\* C7, amended: with a credential and a response, every status other than 200
\* gives the Failure whose message is "Gemini error <status>: " followed by
\* the first 500 characters of the body and whose raw text describes the
\* failure; status 200 gives Success exactly when the body decodes as JSON.
C7_FailureIffNot200 ==
    C7_Answered =>
        /\ transport.status # 200 =>
              ai = [ok |-> FALSE,
                    error |-> <<"Gemini error", " ">> \o C7_Status(transport.status)
                                \o <<":", " ">> \o C7_First500(transport.body),
                    rawText |-> <<"Gemini failed with status", " ">>
                                  \o C7_Status(transport.status) \o <<":", " ">>
                                  \o transport.body,
                    parsed |-> Unset]
        /\ transport.status = 200 => (ai.ok <=> json_loads(transport.body).ok)

\* status 500 with a body of 501 characters: the message carries 500 of them
C7_Witness ==
    /\ C7_Answered
    /\ transport.status = 500
    /\ Len(transport.body) = 501
    /\ ~ai.ok
    /\ Len(ai.error) = 507
    /\ Len(ai.rawText) = 508

\* the member of the object x under key k
C8_Member(x, k) == x.obj[CHOOSE i \in 1..Len(x.obj) : x.obj[i][1] = k][2]
C8_HasMember(x, k) == DOMAIN x = {"obj"} /\ \E i \in 1..Len(x.obj) : x.obj[i][1] = k
C8_HasFirst(x) == DOMAIN x = {"arr"} /\ Len(x.arr) >= 1
\* the decoded body has candidates[0].content.parts[0].text
C8_HasPath(data) ==
    /\ C8_HasMember(data, <<"candidates">>)
    /\ C8_HasFirst(C8_Member(data, <<"candidates">>))
    /\ C8_HasMember(C8_Member(data, <<"candidates">>).arr[1], <<"content">>)
    /\ C8_HasMember(C8_Member(C8_Member(data, <<"candidates">>).arr[1], <<"content">>),
                    <<"parts">>)
    /\ C8_HasFirst(C8_Member(C8_Member(C8_Member(data, <<"candidates">>).arr[1],
                                       <<"content">>), <<"parts">>))
    /\ C8_HasMember(C8_Member(C8_Member(C8_Member(data, <<"candidates">>).arr[1],
                                        <<"content">>), <<"parts">>).arr[1],
                    <<"text">>)

\* C8: with a credential every transport outcome is mapped to a result: an
\* exception while sending gives the Failure "Request failed: <exception>", a
\* 200 body that does not decode gives the Failure of the decoding exception,
\* a decoded 200 body without the path candidates[0].content.parts[0].text
\* gives a Success whose raw text is the serialization of the whole body, and
\* in every Success the raw text is a string and parsed is
\* safe_extract_json(rawText).
C8_EveryOutcomeMapped ==
    (phase = "called" /\ GEMINI_API_KEY) =>
        /\ ai.ok \in BOOLEAN
        /\ transport.kind = "raise" =>
              /\ ~ai.ok
              /\ ai.error = <<"Request failed:", " ">> \o transport.exc
        /\ (transport.kind = "response" /\ transport.status = 200) =>
              /\ ~json_loads(transport.body).ok =>
                    /\ ~ai.ok
                    /\ ai.error = <<"Request failed:", " ", "Expecting value">>
              /\ (json_loads(transport.body).ok
                    /\ ~C8_HasPath(json_loads(transport.body).val)) =>
                    /\ ai.ok
                    /\ ai.rawText = json_dumps(json_loads(transport.body).val)
        /\ ai.ok =>
              /\ DOMAIN ai.rawText = 1..Len(ai.rawText)
              /\ ai.parsed = safe_extract_json(ai.rawText)

\* a 200 response whose body is {}: Success, the raw text "{}" and parsed {}
C8_Witness ==
    /\ phase = "called"
    /\ GEMINI_API_KEY
    /\ transport = Response(200, <<"{", "}">>)
    /\ ai.ok
    /\ ai.rawText = <<"{", "}">>
    /\ ai.parsed = Obj(<<>>)

----------------------------------------------------------------------------
(* Properties of the session (Spec) *)

\* C9: a Generate click that reached the gateway ends in one of two
\* renderings: after a Failure the fallback record built from the raw text
\* (from the error message when the raw text is empty) and the error message,
\* after a Success the record of validate_deliverables(parsed, rawText); in
\* both the summary and the two deliverable contents hold non-whitespace text
\* and the two lists are non-empty.
C9_RenderedNeverBlank ==
    (phase = "rendered" /\ screen.kind \in {"failure", "record"}) =>
        /\ screen.kind = "failure" <=> ~ai.ok
        /\ ~ai.ok =>
              /\ screen.record
                   = C3_Fallback(IF Len(ai.rawText) > 0 THEN ai.rawText ELSE ai.error)
              /\ screen.error = ai.error
        /\ ai.ok => screen.record = validate_deliverables(ai.parsed, ai.rawText).data
        /\ NonBlank(screen.record.systemSummary)
        /\ NonBlank(screen.record.primaryDeliverable.content)
        /\ NonBlank(screen.record.supportingDeliverable.content)
        /\ Len(screen.record.executionChecklist) >= 1
        /\ Len(screen.record.nextActions) >= 1

\* one click, seen on the counter and on the count of gateway calls
C10_Click ==
    /\ uses_left' <= uses_left
    /\ (uses_left <= 0 \/ ~NonBlank(prompt')) =>
          (gw_calls' = gw_calls /\ uses_left' = uses_left)
    /\ gw_calls' # gw_calls =>
          (gw_calls' = gw_calls + 1 /\ uses_left' = uses_left - 1)
    /\ uses_left' # uses_left => gw_calls' = gw_calls + 1

\* C10: uses_left starts at FREE_LIMIT, never increases and never goes below
\* 0; a click at uses_left <= 0 or with a blank prompt calls no gateway and
\* leaves the counter alone; every click that calls the gateway takes exactly
\* 1 off the counter, on Success and on Failure; at most FREE_LIMIT gateway
\* calls are made in a session.
C10_UsesLeftCounter ==
    /\ uses_left = 3 /\ FREE_LIMIT = 3 /\ gw_calls = 0
    /\ [](uses_left \in 0..FREE_LIMIT /\ gw_calls <= FREE_LIMIT)
    /\ [][C10_Click]_vars

\* three gateway calls, the last one a Failure, then a click at the limit
C10_Witness ==
    /\ uses_left = 0
    /\ gw_calls = FREE_LIMIT
    /\ ~ai.ok
    /\ screen.kind = "limit"

====
